---- MODULE Spec2Model ----
(***************************************************************************)
(* ConsoleHistory (src/console/history.ts): the console's command-history  *)
(* navigator.  A string is modelled as the sequence of its characters, a   *)
(* Vector<string> as a sequence of strings, and a reference that may be    *)
(* null as a record [null, items].  Indices are 0-based as in the source   *)
(* (At converts to the 1-based sequences of TLA+).                         *)
(***************************************************************************)
EXTENDS Integers, Sequences, FiniteSets

\* ------------------------------------------------------------------ bounds
\* Longest history the model lets push() build.
MaxLog == 2
\* Longest history reply a kernel sends.
MaxSnap == 2
\* Most history requests in flight at once.
MaxPending == 2

\* ------------------------------------------------------------------ values
\* The strings pushed and sent by kernels in the model: '', 'a', 'ab'.
Texts == { <<>>, <<"a">>, <<"a", "b">> }

\* The placeholders passed to back() and forward(): these and 'b'.
Placeholders == Texts \cup { <<"b">> }

\* JavaScript's undefined, as a value no string equals.
Undefined == <<"undefined">>

\* The outcome of a call that threw a TypeError instead of returning.
TypeError == <<"TypeError">>

\* What a void method returns.
Void == <<"void">>

\* A null reference to a Vector, and a fresh or filled Vector.
Null == [null |-> TRUE, items |-> <<>>]
Vector(items) == [null |-> FALSE, items |-> items]

\* The kernels a caller can assign; NoKernel is the null kernel.
NoKernel == "null"
Kernels == {"K1", "K2"}

\* The history replies a kernel can send: the input texts of its entries.
Replies == UNION { [1..n -> Texts] : n \in 0..MaxSnap }

Min(a, b) == IF a < b THEN a ELSE b
Max(a, b) == IF a > b THEN a ELSE b

\* ------------------------------------------------------------------- state
\* The fields of ConsoleHistory and the requests in flight, then three
\* history variables (last, backs, fwdEnd, before) that record what the
\* calls did; no action reads them.
VARIABLES
  history,      \* _history: the log, or Null once disposed
  filtered,     \* _filtered: the session's filtered view, Null until a session
  cursor,       \* _cursor
  hasSession,   \* _hasSession
  placeholder,  \* _placeholder
  kernel,       \* _kernel
  pending,      \* requestHistory promises not yet settled, per kernel
  last,         \* the last call: its name, argument and outcome (and the
                \* reply handed to onHistory)
  backs,        \* consecutive back() calls since one started the session
  fwdEnd,       \* forward() returned undefined, no back/reset/push since
  before        \* the cursor the last call, a back() or forward(), moved
                \* from; -1 after any other call

vars == << history, filtered, cursor, hasSession, placeholder, kernel,
           pending, last, backs, fwdEnd, before >>

\* ----------------------------------------------------------------- helpers
\* Vector.at(index): the element; out of range (index -1 in back(), index
\* length in forward()) the array read underneath yields undefined, which is
\* what back() and forward() document as "unavailable".
At(v, index) ==
  IF index >= 0 /\ index < Len(v) THEN v[index + 1] ELSE Undefined

\* Vector.back: the last element, undefined when empty.
VectorBack(v) == IF Len(v) > 0 THEN v[Len(v)] ELSE Undefined

\* String.slice(0, end) for end >= 0.
Slice(str, end) == SubSeq(str, 1, Min(end, Len(str)))

\* The filter as a bug would have it: filterStr found anywhere in str
\* (str.indexOf(filterStr) !== -1) instead of at its start.
MatchesAnywhere(filterStr, str) ==
  \E i \in 0..Len(str) :
    /\ i + Len(filterStr) <= Len(str)
    /\ SubSeq(str, i + 1, i + Len(filterStr)) = filterStr

\* The predicate of setFilter: filterStr == str.slice(0, filterStr.length).
Matches(filterStr, str) == filterStr = Slice(str, Len(filterStr))

\* setFilter as a bug would have it: no entry filtered out.
setFilterNone(items, filterStr) == items

\* setFilter: the entries of the history that match, in order.
setFilter(items, filterStr) ==
  SelectSeq(items, LAMBDA str : Matches(filterStr, str))

\* The loop of onHistory over value.content.history from index i (1-based),
\* with the running `last` and the vector built so far.
RECURSIVE onHistoryLoop(_, _, _, _)
onHistoryLoop(reply, i, lastKept, acc) ==
  IF i > Len(reply) THEN acc
  ELSE IF reply[i] # lastKept
       THEN onHistoryLoop(reply, i + 1, reply[i], Append(acc, reply[i]))
       ELSE onHistoryLoop(reply, i + 1, lastKept, acc)

\* onHistory as a bug would have it: every text of the reply kept.
onHistoryItemsAll(reply) == reply

\* The vector onHistory builds from a reply.
onHistoryItems(reply) == onHistoryLoop(reply, 1, <<>>, <<>>)

\* `item &&` in push: undefined and '' are falsy.
Truthy(item) == item # Undefined /\ item # <<>>

\* push as a bug would have it: the comparison with the last item left out.
pushAppendsAlways(items, item) == Truthy(item)

\* The condition under which push appends.
pushAppends(items, item) == Truthy(item) /\ item # VectorBack(items)

Total(p) == p["K1"] + p["K2"]

Call(op, arg, ret) == [op |-> op, arg |-> arg, ret |-> ret]

\* -------------------------------------------------------------------- Init
\* After the constructor: no options, or options.kernel assigned through
\* the setter, which issues the request.
Init ==
  /\ history = Vector(<<>>)
  /\ filtered = Null
  /\ cursor = 0
  /\ hasSession = FALSE
  /\ placeholder = <<>>
  /\ kernel \in Kernels \cup {NoKernel}
  /\ pending = [k \in Kernels |-> IF k = kernel THEN 1 ELSE 0]
  /\ last = Call("new", Undefined, Void)
  /\ backs = 0
  /\ fwdEnd = FALSE
  /\ before = -1

\* The most back() calls the model counts in a row.
MaxBacks == Max(MaxLog, MaxSnap) + 1

\* ----------------------------------------------------------------- actions
\* The setter as a bug would have it: no comparison with the bound kernel,
\* so that assigning it again issues a request (or empties the history).
setKernelAgain(newValue) ==
  /\ UNCHANGED << filtered, cursor, hasSession, placeholder, fwdEnd >>
  /\ backs' = 0
  /\ before' = -1
  /\ kernel' = newValue
  /\ IF newValue = NoKernel
     THEN /\ history' = Vector(<<>>)
          /\ UNCHANGED pending
          /\ last' = Call("kernelNull", <<newValue>>, Void)
     ELSE /\ Total(pending) < MaxPending
          /\ pending' = [pending EXCEPT ![newValue] = @ + 1]
          /\ UNCHANGED history
          /\ last' = Call("kernelFetch", <<newValue>>, Void)

\* set kernel(newValue)
setKernel(newValue) ==
  /\ UNCHANGED << filtered, cursor, hasSession, placeholder, fwdEnd >>
  /\ backs' = 0
  /\ before' = -1
  /\ IF newValue = kernel
     THEN /\ UNCHANGED << history, kernel, pending >>
          /\ last' = Call("kernelSame", <<newValue>>, Void)
     ELSE /\ kernel' = newValue
          /\ IF newValue = NoKernel
             THEN /\ history' = Vector(<<>>)
                  /\ UNCHANGED pending
                  /\ last' = Call("kernelNull", <<newValue>>, Void)
             ELSE /\ Total(pending) < MaxPending
                  /\ pending' = [pending EXCEPT ![newValue] = @ + 1]
                  /\ UNCHANGED history
                  /\ last' = Call("kernelFetch", <<newValue>>, Void)

\* onHistory as a bug would have it: reset() called at its end, which ends
\* the session.
onHistoryResets(k, reply) ==
  /\ pending[k] > 0
  /\ pending' = [pending EXCEPT ![k] = @ - 1]
  /\ history' = Vector(onHistoryItems(reply))
  /\ cursor' = Len(onHistoryItems(reply))
  /\ hasSession' = FALSE
  /\ placeholder' = <<>>
  /\ last' = [op |-> "onHistory", arg |-> <<k>>, ret |-> Void,
               reply |-> reply]
  /\ backs' = 0
  /\ before' = -1
  /\ UNCHANGED << filtered, kernel, fwdEnd >>

\* onHistory(value), run by the then-callback of a request k that resolved.
onHistory(k, reply) ==
  /\ pending[k] > 0
  /\ pending' = [pending EXCEPT ![k] = @ - 1]
  /\ history' = Vector(onHistoryItems(reply))
  /\ cursor' = Len(onHistoryItems(reply))
  /\ last' = [op |-> "onHistory", arg |-> <<k>>, ret |-> Void,
               reply |-> reply]
  /\ backs' = 0
  /\ before' = -1
  /\ UNCHANGED << filtered, hasSession, placeholder, kernel, fwdEnd >>

\* A request k that rejected: then() was given no rejection handler, so
\* nothing of the object changes.
requestRejected(k) ==
  /\ pending[k] > 0
  /\ pending' = [pending EXCEPT ![k] = @ - 1]
  /\ last' = Call("rejected", <<k>>, Void)
  /\ backs' = 0
  /\ before' = -1
  /\ UNCHANGED << history, filtered, cursor, hasSession, placeholder, kernel,
                  fwdEnd >>

\* dispose()
dispose ==
  /\ history' = IF history.null THEN history ELSE Null
  /\ last' = Call("dispose", Undefined, Void)
  /\ backs' = 0
  /\ before' = -1
  /\ UNCHANGED << filtered, cursor, hasSession, placeholder, kernel, pending,
                  fwdEnd >>

\* The cursor back() leaves: --cursor, then Math.max(0, cursor).
backCursor(c) == Max(0, c - 1)

\* forward() as a bug would have it: the cursor clamped to the last index
\* (Math.min(length - 1, cursor)) instead of the length.
forwardCursorOnLast(c, length) == Min(length - 1, c + 1)

\* The cursor forward() leaves: ++cursor, then Math.min(length, cursor).
forwardCursor(c, length) == Min(length, c + 1)

\* The common start of back() and forward(): the session flag, placeholder,
\* filtered view and cursor after the `if (!this._hasSession)` block.  With
\* a null _history setFilter throws after the first two assignments.
startThrows == ~hasSession /\ history.null

\* The start as a bug would have it: the filtered view computed by the
\* first session only and kept by the later ones.
startFilteredOnce(p) ==
  IF hasSession \/ ~filtered.null
  THEN filtered
  ELSE Vector(setFilter(history.items, p))
\* _filtered after the `if (!this._hasSession)` block.
startFiltered(p) ==
  IF hasSession THEN filtered ELSE Vector(setFilter(history.items, p))

\* The start as a bug would have it: the cursor set on the last entry
\* instead of past it, so that the first back() skips the newest match.
startCursorOnLast(p) ==
  IF hasSession THEN cursor ELSE Len(startFiltered(p).items) - 1
startCursor(p) ==
  IF hasSession THEN cursor ELSE Len(startFiltered(p).items)

\* The start as a bug would have it: every call's placeholder accepted.
startPlaceholderEvery(p) == p
\* _placeholder after the `if (!this._hasSession)` block.
startPlaceholder(p) == IF hasSession THEN placeholder ELSE p

\* back(placeholder)
back(p) ==
  /\ hasSession' = TRUE
  /\ placeholder' = startPlaceholder(p)
  /\ fwdEnd' = FALSE
  /\ UNCHANGED << history, kernel, pending >>
  /\ IF startThrows \/ startFiltered(p).null
     THEN /\ UNCHANGED << filtered, cursor >>
          /\ before' = -1
          /\ last' = Call("back", p, TypeError)
          /\ backs' = 0
     ELSE /\ filtered' = startFiltered(p)
          /\ before' = startCursor(p)
          /\ cursor' = backCursor(startCursor(p))
          /\ last' = Call("back", p,
                          At(startFiltered(p).items, startCursor(p) - 1))
          /\ backs' = IF ~hasSession THEN 1
                      ELSE IF backs > 0 THEN Min(backs + 1, MaxBacks) ELSE 0

\* forward(placeholder)
forward(p) ==
  /\ hasSession' = TRUE
  /\ placeholder' = startPlaceholder(p)
  /\ backs' = 0
  /\ UNCHANGED << history, kernel, pending >>
  /\ IF startThrows \/ startFiltered(p).null
     THEN /\ UNCHANGED << filtered, cursor, fwdEnd >>
          /\ before' = -1
          /\ last' = Call("forward", p, TypeError)
     ELSE /\ filtered' = startFiltered(p)
          /\ before' = startCursor(p)
          /\ cursor' = forwardCursor(startCursor(p),
                                     Len(startFiltered(p).items))
          /\ last' = Call("forward", p,
                          At(startFiltered(p).items, startCursor(p) + 1))
          /\ fwdEnd' = (At(startFiltered(p).items, startCursor(p) + 1)
                          = Undefined)

\* The items push(item) leaves in a live _history.
pushItems(items, item) ==
  IF pushAppends(items, item) THEN Append(items, item) ELSE items

\* reset(), on a live _history.
resetState ==
  /\ cursor' = Len(history'.items)
  /\ hasSession' = FALSE
  /\ placeholder' = <<>>

\* push as a bug would have it: reset() called only when the item was
\* appended.
pushResetsOnAppend(item) ==
  /\ backs' = 0
  /\ before' = -1
  /\ fwdEnd' = FALSE
  /\ UNCHANGED << filtered, kernel, pending >>
  /\ IF history.null
     THEN /\ UNCHANGED << history, cursor, hasSession, placeholder >>
          /\ last' = Call("push", item, TypeError)
     ELSE /\ Len(pushItems(history.items, item)) <= MaxLog
          /\ history' = Vector(pushItems(history.items, item))
          /\ IF pushAppends(history.items, item)
             THEN resetState
             ELSE UNCHANGED << cursor, hasSession, placeholder >>
          /\ last' = Call("push", item, Void)

\* push(item): with a null _history it throws before it changed anything.
push(item) ==
  /\ backs' = 0
  /\ before' = -1
  /\ fwdEnd' = FALSE
  /\ UNCHANGED << filtered, kernel, pending >>
  /\ IF history.null
     THEN /\ UNCHANGED << history, cursor, hasSession, placeholder >>
          /\ last' = Call("push", item, TypeError)
     ELSE /\ Len(pushItems(history.items, item)) <= MaxLog
          /\ history' = Vector(pushItems(history.items, item))
          /\ resetState
          /\ last' = Call("push", item, Void)

\* reset(): with a null _history it throws before it changed anything.
reset ==
  /\ backs' = 0
  /\ before' = -1
  /\ fwdEnd' = FALSE
  /\ UNCHANGED << history, filtered, kernel, pending >>
  /\ IF history.null
     THEN /\ UNCHANGED << cursor, hasSession, placeholder >>
          /\ last' = Call("reset", Undefined, TypeError)
     ELSE /\ resetState
          /\ last' = Call("reset", Undefined, Void)

Next ==
  \/ \E k \in Kernels \cup {NoKernel} : setKernel(k)
  \/ \E k \in Kernels : \E reply \in Replies : onHistory(k, reply)
  \/ \E k \in Kernels : requestRejected(k)
  \/ dispose
  \/ \E p \in Placeholders : back(p)
  \/ \E p \in Placeholders : forward(p)
  \/ \E item \in Texts \cup {Undefined} : push(item)
  \/ reset

Spec == Init /\ [][Next]_vars

\* The object in use: every call but dispose(), after which no call is valid.
NextLive ==
  \/ \E k \in Kernels \cup {NoKernel} : setKernel(k)
  \/ \E k \in Kernels : \E reply \in Replies : onHistory(k, reply)
  \/ \E k \in Kernels : requestRejected(k)
  \/ \E p \in Placeholders : back(p)
  \/ \E p \in Placeholders : forward(p)
  \/ \E item \in Texts \cup {Undefined} : push(item)
  \/ reset

SpecLive == Init /\ [][NextLive]_vars

\* ------------------------------------------------------------ properties
\* The statements below are checked on SpecLive: they are about an object in
\* use, and after dispose() no call is valid.

\* P is a prefix of str, stated on the characters.
IsPrefix(P, str) ==
  /\ Len(P) <= Len(str)
  /\ \A i \in 1..Len(P) : str[i] = P[i]

\* The entries of a log that start with P, in log order.
MatchingEntries(log, P) == SelectSeq(log, LAMBDA e : IsPrefix(P, e))

Navigated == last.op \in {"back", "forward"}

\* C1: in a session with a non-empty filtered view, once back() has
\* returned the oldest match (the cursor is on index 0), the next back()
\* returns that entry again; and back() returns undefined only when the
\* filtered view is empty.
C1_BackClampsToOldest ==
  [][ last'.op = "back" =>
        /\ ( /\ last.op = "back"
             /\ hasSession
             /\ Len(filtered.items) > 0
             /\ cursor = 0
             /\ last.ret = filtered.items[1] )
           => last'.ret = filtered.items[1]
        /\ last'.ret = Undefined => filtered'.items = <<>> ]_vars

\* C2: a reply to a request made to a kernel that is no longer the bound one
\* (another kernel was bound meanwhile) changes neither the history nor the
\* cursor.
C2_StaleReplyDiscarded ==
  [][ ( /\ last'.op = "onHistory"
        /\ kernel \in Kernels
        /\ last'.arg # <<kernel>> )
      => (history' = history /\ cursor' = cursor) ]_vars

\* C3: the call that follows the assignment of a different non-null kernel,
\* when it is a back() or forward() that starts a session, computes an empty
\* filtered view and returns undefined.
C3_RebindEmptiesLog ==
  [][ ( /\ last.op = "kernelFetch"
        /\ ~hasSession
        /\ last'.op \in {"back", "forward"} )
      => (filtered'.items = <<>> /\ last'.ret = Undefined) ]_vars

\* C4: the history never holds two adjacent equal entries.
C4_NoAdjacentDuplicates ==
  \A i \in 1..(Len(history.items) - 1) :
    history.items[i] # history.items[i + 1]

\* C4 witness: push() was called on a history that holds two entries, its
\* argument equal to the last of them.
C4_Witness ==
  /\ last.op = "push"
  /\ Len(history.items) = 2
  /\ last.arg = history.items[2]
  /\ history.items[1] # history.items[2]

\* C5: push(x) with x empty, undefined or equal to the last entry leaves the
\* history as it was, and every push leaves no session and the placeholder
\* empty.
C5_PushAlwaysResets ==
  [][ last'.op = "push" =>
        /\ ( \/ last'.arg \in {<<>>, Undefined}
             \/ last'.arg = VectorBack(history.items) )
           => history' = history
        /\ ~hasSession'
        /\ placeholder' = <<>> ]_vars

\* C5 witness: push('') was ignored by a history that holds entries and has
\* been navigated, and no session is left.
C5_Witness ==
  /\ last.op = "push"
  /\ last.arg = <<>>
  /\ Len(history.items) > 0
  /\ ~filtered.null
  /\ ~hasSession
  /\ placeholder = <<>>

\* C6: the call that starts a session sets the placeholder to its argument;
\* while the session lasts no call changes the placeholder, and a back() or
\* forward() within it leaves the filtered view alone and returns the entry
\* its cursor move selects, whatever its argument.
C6_PlaceholderCapturedOnce ==
  [][ /\ (hasSession /\ hasSession') => placeholder' = placeholder
      /\ (last'.op \in {"back", "forward"} /\ ~hasSession)
           => (hasSession' /\ placeholder' = last'.arg)
      /\ (last'.op \in {"back", "forward"} /\ hasSession)
           => /\ filtered' = filtered
              /\ last'.ret = At(filtered.items,
                                IF last'.op = "back" THEN cursor - 1
                                                     ELSE cursor + 1) ]_vars

\* C6 witness: a call within a session was given another placeholder than
\* the session's and returned an entry.
C6_Witness ==
  /\ Navigated
  /\ hasSession
  /\ last.arg # placeholder
  /\ last.ret \in Texts

\* C7: what back() or forward() returns is undefined or an entry that starts
\* with the session's placeholder.
C7_ReturnsMatchPlaceholder ==
  (Navigated /\ last.ret # Undefined) => IsPrefix(placeholder, last.ret)

\* C7 witness: an entry was returned in a session with a non-empty
\* placeholder while the history holds an entry that does not match it.
C7_Witness ==
  /\ Navigated
  /\ last.ret \in Texts
  /\ placeholder # <<>>
  /\ \E i \in 1..Len(history.items) :
       ~IsPrefix(placeholder, history.items[i])

\* C8: the k-th of the consecutive back() calls that begin a session returns
\* the k-th newest of the n entries matching the placeholder, for k in 1..n.
C8_BackReturnsNewestFirst ==
  LET V == MatchingEntries(history.items, placeholder)
  IN  (backs >= 1 /\ backs <= Len(V)) => last.ret = V[Len(V) - backs + 1]

\* C8 witness: the second back() of a session returned the older of two
\* matches.
C8_Witness ==
  /\ backs = 2
  /\ Len(MatchingEntries(history.items, placeholder)) = 2
  /\ last.ret = history.items[1]

\* C9: once forward() has returned undefined, every later forward() does,
\* until a back(), reset() or push().
C9_ForwardStaysAtEnd ==
  [][ (fwdEnd /\ last'.op = "forward") => last'.ret = Undefined ]_vars

\* C10: when the request made by the assignment of a kernel (or by the
\* constructor) is rejected as the next event, the history is empty.
C10_RejectedLeavesLogEmpty ==
  [][ ( /\ last.op \in {"new", "kernelFetch"}
        /\ last'.op = "rejected"
        /\ last'.arg = <<kernel>> )
      => history'.items = <<>> ]_vars

\* The texts of a reply with contiguous repeats collapsed: a text is kept
\* iff it differs from the last text kept, '' when none was kept yet.
RECURSIVE Dedup(_)
Dedup(texts) ==
  IF texts = <<>> THEN <<>>
  ELSE LET kept == Dedup(SubSeq(texts, 1, Len(texts) - 1))
           lastKept == IF kept = <<>> THEN <<>> ELSE kept[Len(kept)]
           text == texts[Len(texts)]
       IN  IF text # lastKept THEN Append(kept, text) ELSE kept

C12_NextCallStartsSession ==
  [][ (last'.op \in {"back", "forward"} /\ ~hasSession) =>
        /\ hasSession'
        /\ placeholder' = last'.arg
        /\ ~filtered'.null
        /\ filtered'.items = MatchingEntries(history.items, last'.arg) ]_vars

\* C12 witness: the call that started the session was given 'a', and the
\* view holds the two entries of the history, both matching it.
C12_Witness ==
  /\ Navigated
  /\ hasSession
  /\ last.arg = <<"a">>
  /\ placeholder = <<"a">>
  /\ history.items = << <<"a">>, <<"a", "b">> >>
  /\ filtered.items = history.items
  /\ (last.op = "back" => backs = 1)
  /\ (last.op = "forward" => cursor = 2)

\* The statements on dispose() are checked on Spec.

\* C13: once disposed, the object stays disposed: _history is never created
\* again.
C13_DisposedForGood ==
  [][ history.null => history'.null ]_vars

\* C14: on a disposed object back(), forward(), push() and reset() leave
\* the session flag, the placeholder and the cursor as they were and return
\* no entry.
C14_CallsAfterDisposeInert ==
  [][ (history.null /\ last'.op \in {"back", "forward", "push", "reset"}) =>
        /\ hasSession' = hasSession
        /\ placeholder' = placeholder
        /\ cursor' = cursor
        /\ last'.ret \notin Texts ]_vars

KernelAssigned == {"kernelSame", "kernelNull", "kernelFetch"}

\* C15: while no kernel is bound and the history is empty, only push()
\* makes it non-empty; a reply to a request of an earlier kernel does not.
C15_NullKernelKeepsLogEmpty ==
  [][ ( /\ kernel = NoKernel
        /\ kernel' = NoKernel
        /\ history.items = <<>>
        /\ last'.op # "push" )
      => history'.items = <<>> ]_vars

\* C16: assigning the kernel that is bound already (null included) issues
\* no request and changes none of the fields.
C16_SameKernelNoOp ==
  [][ (last'.op \in KernelAssigned /\ last'.arg = <<kernel>>) =>
        UNCHANGED << history, filtered, cursor, hasSession, placeholder,
                     kernel, pending >> ]_vars

\* C16 witness: the bound kernel, whose reply has arrived, was assigned
\* again during a session, and no request is in flight.
C16_Witness ==
  /\ last.op \in KernelAssigned
  /\ last.arg = <<kernel>>
  /\ kernel \in Kernels
  /\ pending = [k \in Kernels |-> 0]
  /\ hasSession
  /\ Len(history.items) > 0

\* C17: while a session is active the cursor lies in 0..length of the
\* filtered view.
C17_CursorWithinView ==
  hasSession => (cursor >= 0 /\ cursor <= Len(filtered.items))

\* C18: only push() and reset() end a session; every other call or event
\* leaves the session active and the filtered view as it is.
C18_SessionEndsByResetOrPush ==
  [][ (hasSession /\ last'.op \notin {"push", "reset"}) =>
        (hasSession' /\ filtered' = filtered) ]_vars

\* C18 witness: a reply arrived during a session and replaced the history;
\* the session is still active and its view still holds the earlier entry.
C18_Witness ==
  /\ hasSession
  /\ last.op = "onHistory"
  /\ history.items = <<>>
  /\ Len(filtered.items) > 0

\* C19, as stated: while a session is active the filtered view holds the
\* entries of the current history that match the placeholder.
C19_ViewOfCurrentLog ==
  hasSession =>
    filtered.items = MatchingEntries(history.items, placeholder)

\* C19, amended: the view holds the matching entries of the history when
\* the session starts, and goes on holding the matching entries of the
\* current history over every step that leaves the history as it is (a
\* rebinding to a non-null kernel among them).
C19_ViewOfLogUnlessReplaced ==
  [][ ( /\ hasSession'
        /\ \/ ~hasSession
           \/ /\ filtered.items = MatchingEntries(history.items, placeholder)
              /\ history' = history )
      => filtered'.items = MatchingEntries(history'.items, placeholder') ]_vars

\* C19 witness: another kernel was bound during a session, and the view
\* still holds the one entry, of two, that matches the placeholder.
C19_Witness ==
  /\ hasSession
  /\ last.op = "kernelFetch"
  /\ Len(history.items) = 2
  /\ Len(filtered.items) = 1
  /\ filtered.items = MatchingEntries(history.items, placeholder)

\* C20: in a session, a back() from a cursor in 1..length followed at once
\* by a forward(), and a forward() from a cursor in 0..length-1 followed at
\* once by a back(), leave the cursor where it was; and a back() or
\* forward() within a session changes neither the history nor the
\* placeholder nor the filtered view.
C20_BackForwardCancel ==
  [][ /\ ( /\ last.op = "back" /\ last'.op = "forward"
           /\ before >= 1 /\ before <= Len(filtered.items) )
         => cursor' = before
      /\ ( /\ last.op = "forward" /\ last'.op = "back"
           /\ before >= 0 /\ before <= Len(filtered.items) - 1 )
         => cursor' = before
      /\ (hasSession /\ last'.op \in {"back", "forward"})
         => UNCHANGED << history, placeholder, filtered >> ]_vars

\* C20 witness: a forward() moved the cursor from the newest entry of a
\* view of two back to the end, where a back() had taken it from.
C20_Witness ==
  /\ hasSession
  /\ last.op = "forward"
  /\ Len(filtered.items) = 2
  /\ before = 1
  /\ cursor = 2

====
